---- MODULE Spec2Model ----
(***************************************************************************)
(* Threpsi AI (src/app.py): a Streamlit page with four tools.  Each tool   *)
(* classifies the user's input with a first model call, compares the label *)
(* with the one the tool expects, and only then asks the model for the     *)
(* full analysis.  The Rx tool rewrites "Brand Medicine" markers of the    *)
(* analysis into search links.                                             *)
(*                                                                         *)
(* A text is a sequence of Unicode code points (scalar values: a str that  *)
(* came out of a decoder holds no lone surrogate).                         *)
(***************************************************************************)
EXTENDS Naturals, Sequences, FiniteSets

VARIABLES
    active_tool,  \* st.session_state.active_tool
    file,         \* what the active tool's file uploader holds
    symptoms,     \* what the text area of the Symptom Checker holds
    transport,    \* what the upstream model answers in this run, call by call
    requests,     \* the generate_content calls this run made, in order
    doc_type,     \* main's local doc_type in this run
    res,          \* what get_ai_response returned in this run
    shown_kind,   \* what this run rendered below the inputs
    shown_text

vars == <<active_tool, file, symptoms, transport, requests, doc_type, res,
          shown_kind, shown_text>>

-----------------------------------------------------------------------------
(* Writing texts.                                                          *)

\* The printable ASCII characters in the order of their code points, from
\* the blank (32) on; the place of the grave accent (96) is left empty.
PRINTABLE ==
    <<" ", "!", "\"", "#", "$", "%", "&", "'", "(", ")", "*", "+", ",", "-",
      ".", "/", "0", "1", "2", "3", "4", "5", "6", "7", "8", "9", ":", ";",
      "<", "=", ">", "?", "@", "A", "B", "C", "D", "E", "F", "G", "H", "I",
      "J", "K", "L", "M", "N", "O", "P", "Q", "R", "S", "T", "U", "V", "W",
      "X", "Y", "Z", "[", "\\", "]", "^", "_", "", "a", "b", "c", "d", "e",
      "f", "g", "h", "i", "j", "k", "l", "m", "n", "o", "p", "q", "r", "s",
      "t", "u", "v", "w", "x", "y", "z", "{", "|", "}", "~">>

\* The code point of a character of a source literal.
Ord(c) ==
    CASE c = "\t" -> 9
      [] c = "\n" -> 10
      [] c = "\r" -> 13
      [] OTHER -> 31 + CHOOSE k \in 1..Len(PRINTABLE) : PRINTABLE[k] = c

\* The text a sequence of characters spells.
Text(s) == [k \in 1..Len(s) |-> Ord(s[k])]

-----------------------------------------------------------------------------
(* String literals of the source.                                          *)

\* get_ai_response's placeholder, returned when the model call fails.
AI_UNAVAILABLE ==
    <<9888, 65039>>
        \o Text(<<" ", "A", "I", " ", "s", "e", "r", "v", "i", "c", "e",
                  " ", "t", "e", "m", "p", "o", "r", "a", "r", "i", "l",
                  "y", " ", "u", "n", "a", "v", "a", "i", "l", "a", "b",
                  "l", "e", ".">>)

\* The literal part of the pattern in patch_medicine_links, with its trailing
\* blank.
MARKER_LABEL ==
    Text(<<"*", "*", "B", "r", "a", "n", "d", " ", "M", "e", "d", "i", "c",
           "i", "n", "e", ":", "*", "*", " ">>)

\* The search endpoint the link points to, up to the query value.
SEARCH_URL ==
    Text(<<"h", "t", "t", "p", "s", ":", "/", "/", "w", "w", "w", ".", "1",
           "m", "g", ".", "c", "o", "m", "/", "s", "e", "a", "r", "c", "h",
           "/", "a", "l", "l", "?", "n", "a", "m", "e", "=">>)

\* What replace() puts after the link target.
LINK_TAIL ==
    Text(<<")", " ">>)
        \o <<128279>>
        \o Text(<<"\n">>)

\* The pieces of the st.error messages.
APPEARS_TO_BE ==
    <<10060>>
        \o Text(<<" ", "T", "h", "i", "s", " ", "a", "p", "p", "e", "a",
                  "r", "s", " ", "t", "o", " ", "b", "e", " ", "a", " ",
                  "*", "*">>)

USE_CORRECT_SECTION ==
    Text(<<"*", "*", ".", " ", "P", "l", "e", "a", "s", "e", " ", "u", "s",
           "e", " ", "t", "h", "e", " ", "c", "o", "r", "r", "e", "c", "t",
           " ", "s", "e", "c", "t", "i", "o", "n", ".">>)

SWITCH_SECTIONS ==
    Text(<<"*", "*", ".", " ", "P", "l", "e", "a", "s", "e", " ", "s", "w",
           "i", "t", "c", "h", " ", "s", "e", "c", "t", "i", "o", "n", "s",
           ".">>)

NOT_FOOD ==
    <<10060>>
        \o Text(<<" ", "T", "h", "i", "s", " ", "d", "o", "e", "s", " ",
                  "n", "o", "t", " ", "l", "o", "o", "k", " ", "l", "i",
                  "k", "e", " ", "f", "o", "o", "d", ".", " ", "P", "l",
                  "e", "a", "s", "e", " ", "u", "p", "l", "o", "a", "d",
                  " ", "a", " ", "f", "o", "o", "d", " ", "i", "m", "a",
                  "g", "e", ".">>)

NOT_SYMPTOMS ==
    <<10060>>
        \o Text(<<" ", "P", "l", "e", "a", "s", "e", " ", "d", "e", "s",
                  "c", "r", "i", "b", "e", " ", "s", "y", "m", "p", "t",
                  "o", "m", "s", " ", "h", "e", "r", "e", ",", " ", "n",
                  "o", "t", " ", "u", "p", "l", "o", "a", "d", " ", "r",
                  "e", "p", "o", "r", "t", "s", ".">>)

\* The category words the tools compare doc_type with.
Prescription ==
    Text(<<"P", "r", "e", "s", "c", "r", "i", "p", "t", "i", "o", "n">>)

LabReport ==
    Text(<<"L", "a", "b", "R", "e", "p", "o", "r", "t">>)

Food ==
    Text(<<"F", "o", "o", "d">>)

Symptoms ==
    Text(<<"S", "y", "m", "p", "t", "o", "m", "s">>)

Unknown ==
    Text(<<"U", "n", "k", "n", "o", "w", "n">>)

-----------------------------------------------------------------------------
(* Bounds of the model.                                                    *)

\* Longest medicine name the upstream model writes after a marker.
MaxNameLen == 2

-----------------------------------------------------------------------------
(* Python string operations.                                               *)

\* The code points str.strip() removes: those str.isspace() holds of.
Whitespace ==
    {9, 10, 11, 12, 13, 28, 29, 30, 31, 32, 133, 160, 5760}
        \cup (8192..8202)
        \cup {8232, 8233, 8239, 8287, 12288}

RECURSIVE lstrip(_)
lstrip(s) ==
    IF s /= <<>> /\ Head(s) \in Whitespace THEN lstrip(Tail(s)) ELSE s

RECURSIVE rstrip(_)
rstrip(s) ==
    IF s /= <<>> /\ s[Len(s)] \in Whitespace
    THEN rstrip(SubSeq(s, 1, Len(s) - 1))
    ELSE s

strip(s) == rstrip(lstrip(s))

\* Case folding of re.IGNORECASE, as far as it decides whether a character
\* matches an ASCII character of a pattern: an ASCII capital matches its
\* small letter, and so do the dotted capital I and the dotless i (304,
\* 305: "i"), the long s (383: "s") and the Kelvin sign (8490: "k").
lower(c) ==
    IF c \in 65..90 THEN c + 32
    ELSE IF c \in {304, 305} THEN 105
    ELSE IF c = 383 THEN 115
    ELSE IF c = 8490 THEN 107
    ELSE c

\* The code points urllib.parse.quote_plus leaves as they are: the ASCII
\* letters and digits and "_", ".", "-", "~".
AlwaysSafe ==
    (65..90) \cup (97..122) \cup (48..57) \cup {95, 46, 45, 126}

\* The UTF-8 bytes of a code point.
utf8(c) ==
    IF c < 128 THEN <<c>>
    ELSE IF c < 2048 THEN <<192 + (c \div 64), 128 + (c % 64)>>
    ELSE IF c < 65536
    THEN <<224 + (c \div 4096), 128 + ((c \div 64) % 64), 128 + (c % 64)>>
    ELSE <<240 + (c \div 262144), 128 + ((c \div 4096) % 64),
           128 + ((c \div 64) % 64), 128 + (c % 64)>>

\* The digit, "0" to "9" and "A" to "F", of a number below 16.
hex_digit(n) == IF n < 10 THEN 48 + n ELSE 55 + n

\* "%" and the two hexadecimal digits of each byte.
RECURSIVE percent_encoded(_)
percent_encoded(bytes) ==
    IF bytes = <<>> THEN <<>>
    ELSE <<37, hex_digit(Head(bytes) \div 16), hex_digit(Head(bytes) % 16)>>
             \o percent_encoded(Tail(bytes))

\* quote_plus on one code point: a blank becomes "+", a safe character
\* stays, anything else becomes its UTF-8 bytes, percent-encoded.
quote_char(c) ==
    IF c = 32 THEN <<43>>
    ELSE IF c \in AlwaysSafe THEN <<c>>
    ELSE percent_encoded(utf8(c))

RECURSIVE quote_plus(_)
quote_plus(s) ==
    IF s = <<>> THEN <<>> ELSE quote_char(Head(s)) \o quote_plus(Tail(s))

-----------------------------------------------------------------------------
(* patch_medicine_links: re.sub of                                         *)
(*     \*\*Brand Medicine:\*\* (.*?)\n     with re.IGNORECASE.             *)

\* The literal part of the pattern matches text at position i, letters
\* compared without case.
label_at(text, i) ==
    /\ i + Len(MARKER_LABEL) - 1 <= Len(text)
    /\ \A k \in 1..Len(MARKER_LABEL) :
           lower(text[i + k - 1]) = lower(MARKER_LABEL[k])

\* Where (.*?)\n ends when it starts at position from: the first line break
\* at or after from, 0 when the text has none ("." matches all but the
\* line feed, 10).
line_end(text, from) ==
    LET breaks == {j \in from..Len(text) : text[j] = 10}
    IN  IF breaks = {} THEN 0
        ELSE CHOOSE j \in breaks : \A k \in breaks : j <= k

\* A mistaken replace(): the captured group is used as it is.
replace_unstripped(group) ==
    MARKER_LABEL \o Text(<<"[">>) \o group \o Text(<<"]", "(">>)
        \o SEARCH_URL \o quote_plus(group) \o LINK_TAIL

\* replace(match), given match.group(1).
replace(group) ==
    LET name == strip(group)
        link == SEARCH_URL \o quote_plus(name)
    IN  MARKER_LABEL \o Text(<<"[">>) \o name \o Text(<<"]", "(">>)
            \o link \o LINK_TAIL

\* pattern.sub scanning from position i: a match is replaced and the scan
\* goes on after it, any other character is copied.
RECURSIVE sub_from(_, _)
sub_from(text, i) ==
    IF i > Len(text) THEN <<>>
    ELSE LET e == IF label_at(text, i)
                  THEN line_end(text, i + Len(MARKER_LABEL))
                  ELSE 0
         IN  IF e > 0
             THEN replace(SubSeq(text, i + Len(MARKER_LABEL), e - 1))
                      \o sub_from(text, e + 1)
             ELSE <<text[i]>> \o sub_from(text, i + 1)

patch_medicine_links(text) == sub_from(text, 1)

-----------------------------------------------------------------------------
(* The upstream model.  One call of generate_content either raises or      *)
(* returns a text.                                                         *)

None == "None"

Failure == [ok |-> FALSE, text |-> <<>>]

Success(t) == [ok |-> TRUE, text |-> t]

\* A mistaken classify_input: no try around the call.
classify_input_unguarded(image, text, outcome) ==
    [content |-> <<"CLASSIFY_PROMPT">>
                    \o (IF image /= None THEN <<"image">> ELSE <<>>)
                    \o (IF text /= <<>> THEN <<"text">> ELSE <<>>),
     value   |-> IF outcome.ok THEN strip(outcome.text) ELSE <<>>,
     raised  |-> ~outcome.ok]

\* classify_input(image, text) when the model call ends as outcome says:
\* the request it sends, the value it returns, whether it raises.
classify_input(image, text, outcome) ==
    [content |-> <<"CLASSIFY_PROMPT">>
                    \o (IF image /= None THEN <<"image">> ELSE <<>>)
                    \o (IF text /= <<>> THEN <<"text">> ELSE <<>>),
     value   |-> IF outcome.ok THEN strip(outcome.text) ELSE Unknown,
     raised  |-> FALSE]

\* The request get_ai_response builds.
analysis_content(prompt, image) ==
    IF image /= None THEN <<prompt, "image">> ELSE <<prompt>>

\* A get_ai_response without the except clause.
get_ai_response_raising(prompt, image, script) ==
    [sent   |-> <<analysis_content(prompt, image)>>,
     text   |-> IF script[1].ok THEN script[1].text ELSE <<>>,
     raised |-> ~script[1].ok]

\* get_ai_response(prompt, image) when the upstream answers its calls as
\* script says, one entry per call: the requests sent, the text returned,
\* whether it raises.  The code calls generate_content once.
get_ai_response(prompt, image, script) ==
    [sent   |-> <<analysis_content(prompt, image)>>,
     text   |-> IF script[1].ok THEN script[1].text ELSE AI_UNAVAILABLE,
     raised |-> FALSE]

-----------------------------------------------------------------------------
(* The four tools of main().                                               *)

Tools == {"rx", "lab", "food", "sym"}

ImageTools == {"rx", "lab", "food"}

\* The label each tool compares doc_type with.
expected(tool) ==
    CASE tool = "rx"   -> Prescription
      [] tool = "lab"  -> LabReport
      [] tool = "food" -> Food
      [] tool = "sym"  -> Symptoms

\* The prompt each tool passes to get_ai_response.
analysis_prompt(tool) ==
    CASE tool = "rx"   -> "RX_PROMPT"
      [] tool = "lab"  -> "LAB_PROMPT"
      [] tool = "food" -> "FOOD_PROMPT"
      [] tool = "sym"  -> "SYMPTOMS_PROMPT"

\* A gate that lets the label Unknown through.
mismatch_unless_unknown(tool, label) ==
    label /= expected(tool) /\ label /= Unknown

\* The test that stops a tool before the analysis.
mismatch(tool, label) == label /= expected(tool)

\* A mismatch text that is the same whatever was detected.
mismatch_message_fixed(tool, label) ==
    CASE tool = "rx"   -> NOT_SYMPTOMS
      [] tool = "lab"  -> NOT_SYMPTOMS
      [] tool = "food" -> NOT_FOOD
      [] tool = "sym"  -> NOT_SYMPTOMS

\* The text of st.error when the tool stops.
mismatch_message(tool, label) ==
    CASE tool = "rx"   -> APPEARS_TO_BE \o label \o USE_CORRECT_SECTION
      [] tool = "lab"  -> APPEARS_TO_BE \o label \o SWITCH_SECTIONS
      [] tool = "food" -> NOT_FOOD
      [] tool = "sym"  -> NOT_SYMPTOMS

\* Every tool patching its analysis.
rendered_patched(tool, text) == patch_medicine_links(text)

\* What st.markdown receives for the analysis text.
rendered(tool, text) ==
    IF tool = "rx" THEN patch_medicine_links(text) ELSE text

-----------------------------------------------------------------------------
(* What the user and the upstream model can supply.                        *)

\* All texts over alphabet of length n at most.
RECURSIVE TextsUpTo(_, _)
TextsUpTo(alphabet, n) ==
    IF n = 0 THEN {<<>>}
    ELSE LET shorter == TextsUpTo(alphabet, n - 1)
         IN  shorter \cup {<<c>> \o s : c \in alphabet, s \in shorter}

\* Answers of the model to the classification prompt, other than the five
\* words it is asked for.
LOWER_FOOD ==
    Text(<<"f", "o", "o", "d">>)

A_LAB_REPORT ==
    Text(<<"a", " ", "l", "a", "b", " ", "r", "e", "p", "o", "r", "t">>)

REPORT_OF_SYMPTOM ==
    Text(<<"r", "e", "p", "o", "r", "t", " ", "o", "f", " ", "s", "y", "m", "p",
      "t", "o", "m">>)

MEDICINE ==
    Text(<<"m", "e", "d", "i", "c", "i", "n", "e">>)

FEVER ==
    Text(<<"f", "e", "v", "e", "r">>)

ClassifyTexts ==
    {Prescription, LabReport, Food, Symptoms, Unknown,
     Food \o Text(<<"\n">>), Text(<<" ">>) \o Prescription,
     Symptoms \o <<160>>,
     LOWER_FOOD, A_LAB_REPORT, REPORT_OF_SYMPTOM, MEDICINE, FEVER}

ClassifyOutcomes == {Failure} \cup {Success(t) : t \in ClassifyTexts}

\* Analyses of the model: texts with one marker line, and texts with none,
\* with a marker that no line break ends, and with two marker lines.  Names
\* are built from a letter, a blank and a character quote_plus escapes.
NameChars == {Ord("D"), Ord(" "), Ord("+")}

Names == TextsUpTo(NameChars, MaxNameLen)

LOWER_LABEL == [k \in 1..Len(MARKER_LABEL) |-> lower(MARKER_LABEL[k])]

Prefixes == {<<>>, Text(<<"a", "\n">>)}

Suffixes == {Text(<<"b", "\n">>), MARKER_LABEL \o Text(<<"Y">>)}

MarkedTexts ==
    {p \o l \o n \o Text(<<"\n">>) \o s :
        p \in Prefixes, l \in {MARKER_LABEL, LOWER_LABEL},
        n \in Names, s \in Suffixes}

\* A marker line that ends in a carriage return and a line break.
DOLO_650_CRLF ==
    MARKER_LABEL
        \o Text(<<"D", "o", "l", "o", " ", "6", "5", "0", "\r", "\n">>)

\* A marker line whose label has a dotless i (305) for its first "i", and
\* whose name, an e with acute accent (233) and a double quote, follows a
\* no-break space (160).
DOTLESS_LABEL == [MARKER_LABEL EXCEPT ![12] = 305]

ACCENTED_NBSP == DOTLESS_LABEL \o <<160, 233>> \o Text(<<"\"", "\n">>)

OtherTexts ==
    {Text(<<"o", "k">>), MARKER_LABEL \o Text(<<"Z">>), DOLO_650_CRLF,
     ACCENTED_NBSP,
     MARKER_LABEL \o Text(<<"A", "\n">>)
         \o MARKER_LABEL \o Text(<<"B", "\n">>)}

AnalysisTexts == MarkedTexts \cup OtherTexts

\* What a second call can return after a first call that failed.
RetryTexts == {Text(<<"o", "k">>), DOLO_650_CRLF}

\* How the upstream answers a first call and the call after it.  After a
\* first call that succeeds no second answer is ever asked for.
AnalysisScripts ==
    {<<Success(t), Failure>> : t \in AnalysisTexts}
        \cup {<<Failure, Failure>>}
        \cup {<<Failure, Success(t)>> : t \in RetryTexts}

SymptomTexts == {<<>>, Text(<<" ">>), FEVER}

Images == {"img"}

-----------------------------------------------------------------------------
(* The page.  Every action is one run of main() after a user event.        *)

Init ==
    /\ active_tool = None
    /\ file = None
    /\ symptoms = <<>>
    /\ transport = <<>>
    /\ requests = <<>>
    /\ doc_type = <<>>
    /\ res = <<>>
    /\ shown_kind = "none"
    /\ shown_text = <<>>

\* A run in which no button of a tool is pressed renders no result.
NothingAnalysed ==
    /\ transport' = <<>>
    /\ requests' = <<>>
    /\ doc_type' = <<>>
    /\ res' = <<>>
    /\ shown_kind' = "none"
    /\ shown_text' = <<>>

\* The dashboard, with the four tool buttons, is rendered on every run.
dashboard_always == TRUE

\* The dashboard is rendered only while no tool is active.
dashboard_shown == active_tool = None

\* The Back button is rendered while a tool is active.
back_shown == active_tool /= None

\* on_click=activate_tool of a dashboard button, then the run.
SelectTool(tool) ==
    /\ dashboard_shown
    /\ active_tool' = tool
    /\ file' = None
    /\ symptoms' = <<>>
    /\ NothingAnalysed

\* on_click=activate_tool(None) of the Back button, then the run.  The
\* widgets of the tool are no longer rendered and lose what they held.
Back ==
    /\ back_shown
    /\ active_tool' = None
    /\ file' = None
    /\ symptoms' = <<>>
    /\ NothingAnalysed

\* The user puts an image into the uploader of the active tool.
UploadFile(image) ==
    /\ active_tool \in ImageTools
    /\ file /= image
    /\ file' = image
    /\ UNCHANGED <<active_tool, symptoms>>
    /\ NothingAnalysed

\* The user takes the image out of the uploader.
RemoveFile ==
    /\ active_tool \in ImageTools
    /\ file /= None
    /\ file' = None
    /\ UNCHANGED <<active_tool, symptoms>>
    /\ NothingAnalysed

\* The user changes the text area of the Symptom Checker.
EditSymptoms(text) ==
    /\ active_tool = "sym"
    /\ symptoms /= text
    /\ symptoms' = text
    /\ UNCHANGED <<active_tool, file>>
    /\ NothingAnalysed

\* The button of a tool: classify, compare, and on a match analyse.  outcome
\* is what the upstream does with the classification call; the script, what
\* it does with the calls after it, matters only when there are any.  An
\* exception that leaves a function ends the run, and Streamlit renders the
\* exception.
Analyze(tool, outcome) ==
    LET image == IF tool \in ImageTools THEN file ELSE None
        text  == IF tool = "sym" THEN symptoms ELSE <<>>
        cls   == classify_input(image, text, outcome)
    IN  /\ active_tool = tool
        /\ tool \in ImageTools => file /= None
        /\ UNCHANGED <<active_tool, file, symptoms>>
        /\ IF cls.raised
           THEN /\ transport' = <<outcome>>
                /\ requests' = <<cls.content>>
                /\ doc_type' = <<>>
                /\ res' = <<>>
                /\ shown_kind' = "exception"
                /\ shown_text' = <<>>
           ELSE IF mismatch(tool, cls.value)
           THEN /\ transport' = <<outcome>>
                /\ requests' = <<cls.content>>
                /\ doc_type' = cls.value
                /\ res' = <<>>
                /\ shown_kind' = "error"
                /\ shown_text' = mismatch_message(tool, cls.value)
           ELSE \E script \in AnalysisScripts :
                LET ans == get_ai_response(analysis_prompt(tool), image,
                                           script)
                IN  /\ transport' = <<outcome>> \o script
                    /\ requests' = <<cls.content>> \o ans.sent
                    /\ doc_type' = cls.value
                    /\ IF ans.raised
                       THEN /\ res' = <<>>
                            /\ shown_kind' = "exception"
                            /\ shown_text' = <<>>
                       ELSE /\ res' = ans.text
                            /\ shown_kind' = "markdown"
                            /\ shown_text' = rendered(tool, ans.text)

AnalyzePrescription ==
    \E outcome \in ClassifyOutcomes : Analyze("rx", outcome)

AnalyzeLabReport ==
    \E outcome \in ClassifyOutcomes : Analyze("lab", outcome)

EstimateCalories ==
    \E outcome \in ClassifyOutcomes : Analyze("food", outcome)

AnalyzeSymptoms ==
    \E outcome \in ClassifyOutcomes : Analyze("sym", outcome)

Next ==
    \/ \E tool \in Tools : SelectTool(tool)
    \/ Back
    \/ \E image \in Images : UploadFile(image)
    \/ RemoveFile
    \/ \E text \in SymptomTexts : EditSymptoms(text)
    \/ AnalyzePrescription
    \/ AnalyzeLabReport
    \/ EstimateCalories
    \/ AnalyzeSymptoms

Spec == Init /\ [][Next]_vars

-----------------------------------------------------------------------------
(* What the claims speak of.                                               *)

\* The calls of this run that were classification calls, and the others.
ClassifyCalls ==
    Cardinality({k \in 1..Len(requests) :
                    requests[k][1] = "CLASSIFY_PROMPT"})

AnalysisCalls ==
    Cardinality({k \in 1..Len(requests) :
                    requests[k][1] /= "CLASSIFY_PROMPT"})

\* A button of a tool was pressed in this run.
Analysed == shown_kind /= "none"

\* sub occurs in s.
Contains(s, sub) ==
    \E i \in 1..(Len(s) - Len(sub) + 1) :
        SubSeq(s, i, i + Len(sub) - 1) = sub

\* str.lower() on a text of ASCII letters.
lowered(s) ==
    [k \in 1..Len(s) |-> IF s[k] \in 65..90 THEN s[k] + 32 ELSE s[k]]

KW_PRESCRIPTION ==
    Text(<<"p", "r", "e", "s", "c", "r", "i", "p", "t", "i", "o", "n">>)

KW_LAB ==
    Text(<<"l", "a", "b">>)

KW_REPORT ==
    Text(<<"r", "e", "p", "o", "r", "t">>)

KW_MEAL ==
    Text(<<"m", "e", "a", "l">>)

KW_CALORIE ==
    Text(<<"c", "a", "l", "o", "r", "i", "e">>)

KW_SYMPTOM ==
    Text(<<"s", "y", "m", "p", "t", "o", "m">>)

KW_PAIN ==
    Text(<<"p", "a", "i", "n">>)

KW_COUGH ==
    Text(<<"c", "o", "u", "g", "h">>)

\* The keyword rules of the specification's classifier, first match wins.
normalized(raw) ==
    LET t == lowered(raw)
    IN  IF Contains(t, KW_PRESCRIPTION) \/ Contains(t, MEDICINE)
        THEN Prescription
        ELSE IF Contains(t, KW_LAB) \/ Contains(t, KW_REPORT)
        THEN LabReport
        ELSE IF \/ Contains(t, LOWER_FOOD)
                \/ Contains(t, KW_MEAL)
                \/ Contains(t, KW_CALORIE)
        THEN Food
        ELSE IF \/ Contains(t, KW_SYMPTOM)
                \/ Contains(t, FEVER)
                \/ Contains(t, KW_PAIN)
                \/ Contains(t, KW_COUGH)
        THEN Symptoms
        ELSE Unknown

\* Where a marker starts in text: the label, in any case as re.IGNORECASE
\* takes it, with a line break somewhere after it.
MarkerStarts(text) ==
    {i \in 1..Len(text) :
        /\ i + Len(MARKER_LABEL) - 1 <= Len(text)
        /\ \A k \in 1..Len(MARKER_LABEL) :
               lower(text[i + k - 1]) = LOWER_LABEL[k]
        /\ \E j \in (i + Len(MARKER_LABEL))..Len(text) : text[j] = 10}

\* The rest of the marker's line, for a marker that starts at i.
RestOfLine(text, i) ==
    LET from == i + Len(MARKER_LABEL)
        to   == CHOOSE j \in from..Len(text) :
                    /\ text[j] = 10
                    /\ \A k \in from..(j - 1) : text[k] /= 10
    IN  SubSeq(text, from, to - 1)

\* What begins a link to the search page.
LINK_HEAD == Text(<<"]", "(">>) \o SEARCH_URL

LinkCount(text) ==
    Cardinality({i \in 1..Len(text) :
                    /\ i + Len(LINK_HEAD) - 1 <= Len(text)
                    /\ SubSeq(text, i, i + Len(LINK_HEAD) - 1) = LINK_HEAD})

\* The number a hexadecimal digit stands for, 16 when it is none.
hex_value(d) ==
    IF d \in 48..57 THEN d - 48
    ELSE IF d \in 65..70 THEN d - 55
    ELSE IF d \in 97..102 THEN d - 87
    ELSE 16

\* The bytes a query value stands for: "%" and two hexadecimal digits are
\* one byte, any other character is itself.
RECURSIVE unquoted_bytes(_)
unquoted_bytes(q) ==
    IF q = <<>> THEN <<>>
    ELSE IF /\ q[1] = 37
            /\ Len(q) >= 3
            /\ hex_value(q[2]) < 16
            /\ hex_value(q[3]) < 16
    THEN <<16 * hex_value(q[2]) + hex_value(q[3])>>
             \o unquoted_bytes(SubSeq(q, 4, Len(q)))
    ELSE <<q[1]>> \o unquoted_bytes(Tail(q))

\* How many bytes the UTF-8 sequence that begins with byte b has.
utf8_length(b) ==
    IF b < 192 THEN 1 ELSE IF b < 224 THEN 2 ELSE IF b < 240 THEN 3 ELSE 4

\* The code points a sequence of well-formed UTF-8 bytes stands for.
RECURSIVE utf8_decoded(_)
utf8_decoded(bytes) ==
    IF bytes = <<>> THEN <<>>
    ELSE LET n == utf8_length(bytes[1])
             c == CASE n = 1 -> bytes[1]
                    [] n = 2 -> (bytes[1] - 192) * 64 + (bytes[2] - 128)
                    [] n = 3 -> (bytes[1] - 224) * 4096
                                    + (bytes[2] - 128) * 64
                                    + (bytes[3] - 128)
                    [] n = 4 -> (bytes[1] - 240) * 262144
                                    + (bytes[2] - 128) * 4096
                                    + (bytes[3] - 128) * 64
                                    + (bytes[4] - 128)
         IN  IF Len(bytes) < n THEN <<>>
             ELSE <<c>> \o utf8_decoded(SubSeq(bytes, n + 1, Len(bytes)))

\* Percent-decoding of a query value.
unquote(q) == utf8_decoded(unquoted_bytes(q))

\* Form decoding: "+" stands for a blank, then percent-decoding.
unquote_plus(q) ==
    unquote([k \in 1..Len(q) |-> IF q[k] = 43 THEN 32 ELSE q[k]])

\* shown is text with the one marker at i replaced by a link to name, and
\* decode takes the link's query value back to name.
PatchedAt(text, i, name, shown, use_plus) ==
    LET rest  == RestOfLine(text, i)
        pre   == SubSeq(text, 1, i - 1)
        post  == SubSeq(text, i + Len(MARKER_LABEL) + Len(rest) + 1,
                        Len(text))
        head  == pre \o MARKER_LABEL \o Text(<<"[">>) \o name \o LINK_HEAD
        tail  == LINK_TAIL \o post
        query == SubSeq(shown, Len(head) + 1, Len(shown) - Len(tail))
    IN  /\ shown = head \o query \o tail
        /\ (IF use_plus THEN unquote_plus(query) ELSE unquote(query)) = name

\* The Rx tool rendered an analysis that has exactly one marker.
OneMarkerPatched ==
    /\ active_tool = "rx"
    /\ shown_kind = "markdown"
    /\ Cardinality(MarkerStarts(res)) = 1

TheMarker == CHOOSE i \in MarkerStarts(res) : TRUE

-----------------------------------------------------------------------------
(* The claims.                                                             *)

\* C1: when the label classify_input returns differs from the one the tool
\* expects, the run ends with the mismatch error and makes no analysis call.
C1_NoCallOnBlock ==
    (Analysed /\ doc_type /= expected(active_tool))
        => /\ shown_kind = "error"
           /\ AnalysisCalls = 0
           /\ res = <<>>

\* C1 witness: the Rx tool, the classifier says Food, the run is blocked
\* after the one classification call.
C1_Witness ==
    /\ active_tool = "rx"
    /\ doc_type = Food
    /\ shown_kind = "error"
    /\ ClassifyCalls = 1
    /\ AnalysisCalls = 0

\* C2, as claimed: an analysis makes at most two attempts, and when the
\* upstream fails the first and would succeed on the second, the analysis
\* returns the text of the second.
C2_RetryRecoversOnce ==
    /\ AnalysisCalls <= 2
    /\ (Len(transport) = 3 /\ ~transport[2].ok /\ transport[3].ok)
           => res = transport[3].text

\* C3: when every attempt of the analysis call fails, the run ends without
\* an exception and renders the placeholder, for every tool.
C3_FailureShowsPlaceholder ==
    (/\ AnalysisCalls >= 1
     /\ \A k \in 1..AnalysisCalls : ~transport[1 + k].ok)
        => /\ shown_kind = "markdown"
           /\ res = AI_UNAVAILABLE
           /\ shown_text = AI_UNAVAILABLE

\* C3 witness: the Rx tool went on to the analysis, whose call failed.
C3_Witness ==
    /\ active_tool = "rx"
    /\ AnalysisCalls = 1
    /\ ~transport[2].ok
    /\ shown_kind = "markdown"
    /\ shown_text = AI_UNAVAILABLE

\* C4: when the classification call fails, classify_input returns Unknown
\* and the run goes on to the comparison and ends with the mismatch error,
\* not with an exception.
C4_ClassifyFailureIsUnknown ==
    (Analysed /\ ~transport[1].ok)
        => /\ doc_type = Unknown
           /\ shown_kind = "error"
           /\ shown_text = mismatch_message(active_tool, Unknown)

\* C4 witness: the Symptom Checker, the classification call failed.
C4_Witness ==
    /\ active_tool = "sym"
    /\ ClassifyCalls = 1
    /\ ~transport[1].ok
    /\ doc_type = Unknown
    /\ shown_kind = "error"

\* C5, as claimed: the label is the category of the first keyword group the
\* lower-cased answer of the model matches, Unknown when it matches none.
C5_ClassifierNormalizes ==
    (Analysed /\ transport[1].ok)
        => doc_type = normalized(transport[1].text)

\* C6: the page starts on the dashboard; the active tool only ever changes
\* from none to a tool or from a tool to none; and no state is final: a
\* tool can be left with Back, and from the dashboard every tool can be
\* selected.
C6_ToolSelection ==
    /\ active_tool = None
    /\ [][active_tool' /= active_tool
              => (active_tool = None \/ active_tool' = None)]_vars
    /\ [](/\ active_tool /= None => ENABLED Back
          /\ active_tool = None => \A t \in Tools : ENABLED SelectTool(t))

\* C6 witness: a tool that was selected and used.
C6_Witness ==
    /\ active_tool = "lab"
    /\ file /= None
    /\ Analysed

\* C7, as claimed: the Symptom Checker run with a blank text is rejected
\* with a message and makes no call of the model.
C7_BlankSymptomsRejected ==
    (active_tool = "sym" /\ Analysed /\ strip(symptoms) = <<>>)
        => /\ shown_kind = "error"
           /\ requests = <<>>

\* C8: an analysis of the Lab, Food or Symptoms tool is rendered as the
\* model returned it, and one of the Rx tool as patch_medicine_links
\* returns it.
C8_OnlyRxPatched ==
    shown_kind = "markdown"
        => IF active_tool = "rx"
           THEN shown_text = patch_medicine_links(res)
           ELSE shown_text = res

\* C8 witness: the Symptom Checker rendered, as it came, an analysis that
\* patching would have changed.
C8_Witness ==
    /\ active_tool = "sym"
    /\ doc_type = Symptoms
    /\ shown_kind = "markdown"
    /\ shown_text = res
    /\ patch_medicine_links(res) /= res

\* C9, as claimed: the one marker is replaced by a link whose text is the
\* rest of the marker's line and whose query value percent-decodes to it;
\* all the rest stays, and there is one link.
C9_LinkNamesRestOfLine ==
    OneMarkerPatched
        => /\ PatchedAt(res, TheMarker, RestOfLine(res, TheMarker),
                        shown_text, FALSE)
           /\ LinkCount(shown_text) = LinkCount(res) + 1

\* C9, amended: the link's text is the rest of the marker's line without
\* the whitespace around it, and the query value form-decodes to it ("+" a
\* blank); all the rest stays, and there is one link more.
C9_LinkNamesStrippedRest ==
    OneMarkerPatched
        => /\ PatchedAt(res, TheMarker, strip(RestOfLine(res, TheMarker)),
                        shown_text, TRUE)
           /\ LinkCount(shown_text) = LinkCount(res) + 1

\* C9 witness: one marker whose line has whitespace around the name, and a
\* name that quote_plus has to escape.
C9_Witness ==
    /\ OneMarkerPatched
    /\ strip(RestOfLine(res, TheMarker)) /= RestOfLine(res, TheMarker)
    /\ Contains(strip(RestOfLine(res, TheMarker)), Text(<<"+">>))
    /\ shown_text /= res

\* C10, as claimed: when the classifier returned a label and the tool blocks
\* on it, the mismatch message names that label, whatever the tool.
C10_MessageNamesCategory ==
    (shown_kind = "error" /\ transport[1].ok)
        => Contains(shown_text, doc_type)

\* C10, amended: the mismatch messages of the Rx and Lab tools name the
\* label the classifier returned, between asterisks; those of the Food and
\* Symptoms tools are fixed texts.
C10_RxLabNameCategory ==
    shown_kind = "error"
        => CASE active_tool \in {"rx", "lab"} ->
                    Contains(shown_text,
                             Text(<<"*", "*">>) \o doc_type
                                 \o Text(<<"*", "*">>))
             [] active_tool = "food" -> shown_text = NOT_FOOD
             [] active_tool = "sym" -> shown_text = NOT_SYMPTOMS

\* C10 witness: the Food tool blocked an input classified as Symptoms with
\* a message that does not name Symptoms.
C10_Witness ==
    /\ active_tool = "food"
    /\ shown_kind = "error"
    /\ doc_type = Symptoms
    /\ ~Contains(shown_text, doc_type)

====
